---------------------------- MODULE Spec2Model ----------------------------
(***************************************************************************)
(* Model of generate_phase_structure.py: the line-oriented parser of an    *)
(* action plan (parse_action_plan), the Task / Phase renders, the          *)
(* filesystem materializer (create_phase_structure) and the driver (main). *)
(*                                                                         *)
(* Text is modelled at character level: a string of the input is a         *)
(* sequence of one-character strings.  A file's content is a sequence of   *)
(* strings whose concatenation is the text (template literals are kept as  *)
(* one string each, interpolated fields character by character).           *)
(***************************************************************************)
EXTENDS Integers, Sequences, FiniteSets, TLC

(***************************************************************************)
(* Bounds of the model.                                                    *)
(***************************************************************************)
MaxLines == 3        \* longest document, in lines
MaxRuns == 2         \* how many times the generator is run on the same tree
MaxPartial == 1      \* most chunks of the payload a failing write leaves in the file
MaxBody == 4         \* longest body, in lines, under the first Task heading of a scanned plan
MaxText == 4         \* longest text given to summarizer

(***************************************************************************)
(* String primitives (str.startswith, str.strip, str.replace, str.lower,   *)
(* int(), str(int), str.join).                                             *)
(***************************************************************************)
StartsWith(s, p) == Len(s) >= Len(p) /\ SubSeq(s, 1, Len(p)) = p

IsSpace(c) == c \in {" ", "\t"}

RECURSIVE LStrip(_)
LStrip(s) == IF s # <<>> /\ IsSpace(Head(s)) THEN LStrip(Tail(s)) ELSE s

RECURSIVE RStrip(_)
RStrip(s) ==
    IF s # <<>> /\ IsSpace(s[Len(s)]) THEN RStrip(SubSeq(s, 1, Len(s) - 1)) ELSE s

Strip(s) == RStrip(LStrip(s))

\* s.replace(old, ''): every non-overlapping occurrence, left to right.
RECURSIVE RemoveAll(_, _)
RemoveAll(s, old) ==
    IF s = <<>> THEN <<>>
    ELSE IF StartsWith(s, old) THEN RemoveAll(SubSeq(s, Len(old) + 1, Len(s)), old)
    ELSE <<Head(s)>> \o RemoveAll(Tail(s), old)

DigitChars == <<"0", "1", "2", "3", "4", "5", "6", "7", "8", "9">>

IsDigit(c) == \E k \in 1..10 : DigitChars[k] = c

DigitVal(c) == (CHOOSE k \in 1..10 : DigitChars[k] = c) - 1

\* int(s) for a string of decimal digits
RECURSIVE ToInt(_)
ToInt(s) ==
    IF s = <<>> THEN 0
    ELSE 10 * ToInt(SubSeq(s, 1, Len(s) - 1)) + DigitVal(s[Len(s)])

\* str(n) for n >= 0
RECURSIVE IntToStr(_)
IntToStr(n) ==
    IF n < 10 THEN <<DigitChars[n + 1]>>
    ELSE IntToStr(n \div 10) \o <<DigitChars[(n % 10) + 1]>>

UpperChars == <<"A", "B", "C", "D", "E", "F", "G", "H", "I", "J", "K", "L", "M",
                "N", "O", "P", "Q", "R", "S", "T", "U", "V", "W", "X", "Y", "Z">>

LowerChars == <<"a", "b", "c", "d", "e", "f", "g", "h", "i", "j", "k", "l", "m",
                "n", "o", "p", "q", "r", "s", "t", "u", "v", "w", "x", "y", "z">>

LowerChar(c) ==
    IF \E k \in 1..26 : UpperChars[k] = c
    THEN LowerChars[CHOOSE k \in 1..26 : UpperChars[k] = c]
    ELSE c

Lower(s) == [k \in 1..Len(s) |-> LowerChar(s[k])]

\* sep.join(parts), as one flat sequence
RECURSIVE Join(_, _)
Join(parts, sep) ==
    IF parts = <<>> THEN <<>>
    ELSE IF Len(parts) = 1 THEN parts[1]
    ELSE parts[1] \o sep \o Join(Tail(parts), sep)

(***************************************************************************)
(* The regular expressions of the parser.                                  *)
(***************************************************************************)
PhasePrefix == <<"#", "#", " ", "P", "h", "a", "s", "e", " ">>
TaskPrefix == <<"#", "#", "#", " ", "T", "a", "s", "k", " ">>
ColonSpace == <<":", " ">>
GoalMarker == <<"*", "*", "G", "o", "a", "l", "*", "*", ":">>
ActionsMarker == <<"*", "*", "A", "c", "t", "i", "o", "n", "s", "*", "*", ":">>
CriteriaMarker == <<"*", "*", "S", "u", "c", "c", "e", "s", "s", " ", "C", "r", "i",
                    "t", "e", "r", "i", "a", "*", "*", ":">>
BulletMarker == <<"-", " ">>

IsNumberChar(c) == IsDigit(c) \/ c = "."

\* length of the longest run of digits (of digits and dots when dotted) at s[from..]
RECURSIVE RunLen(_, _, _)
RunLen(s, from, dotted) ==
    IF from <= Len(s) /\ (IF dotted THEN IsNumberChar(s[from]) ELSE IsDigit(s[from]))
    THEN 1 + RunLen(s, from + 1, dotted)
    ELSE 0

\* ^<prefix>(<run>+): (.+)$   The run is greedy and cannot contain ':', so the
\* only split that can match is the one after the longest run.
HeadingMatches(line, prefix, dotted) ==
    /\ StartsWith(line, prefix)
    /\ LET n == RunLen(line, Len(prefix) + 1, dotted)
           rest == SubSeq(line, Len(prefix) + n + 1, Len(line))
       IN  /\ n >= 1
           /\ StartsWith(rest, ColonSpace)
           /\ Len(rest) >= Len(ColonSpace) + 1

HeadingGroup1(line, prefix, dotted) ==
    SubSeq(line, Len(prefix) + 1, Len(prefix) + RunLen(line, Len(prefix) + 1, dotted))

HeadingGroup2(line, prefix, dotted) ==
    SubSeq(line,
           Len(prefix) + RunLen(line, Len(prefix) + 1, dotted) + Len(ColonSpace) + 1,
           Len(line))

\* re.match(r'^## Phase (\d+): (.+)$', line)
phase_match(line) == HeadingMatches(line, PhasePrefix, FALSE)

\* re.match(r'^### Task ([\d\.]+): (.+)$', line)
task_match(line) == HeadingMatches(line, TaskPrefix, TRUE)

(***************************************************************************)
(* The fixture tool summarizer.py.                                         *)
(***************************************************************************)
DefaultMaxLength == 100

\* s[:stop] of Python: a negative stop counts from the end
Slice(s, stop) ==
    LET n == IF stop < 0 THEN Len(s) + stop ELSE stop
    IN  SubSeq(s, 1, IF n < 0 THEN 0 ELSE IF n > Len(s) THEN Len(s) ELSE n)

Ellipsis == <<".", ".", ".">>

summarizer(text, max_length) ==
    IF Len(text) <= max_length THEN text
    ELSE Slice(text, max_length - 3) \o Ellipsis

(***************************************************************************)
(* Python dicts (current_task) as functions on the keys present.           *)
(***************************************************************************)
EmptyDict == [k \in {} |-> <<>>]

HasKey(d, k) == k \in DOMAIN d

Truthy(d) == DOMAIN d # {}

Put(d, k, v) == [x \in (DOMAIN d) \cup {k} |-> IF x = k THEN v ELSE d[x]]


(***************************************************************************)
(* class Task and class Phase.  A Task's actions field is a reference to a *)
(* Python list: the lists live in heap, and a reference is an index of it. *)
(* src_line is a history field (not in the code): the number of the line   *)
(* whose Task heading started the record the Task was built from.          *)
(***************************************************************************)
Task(number, title, goal, actions, success_criteria, src_line) ==
    [number |-> number, title |-> title, goal |-> goal, actions |-> actions,
     success_criteria |-> success_criteria, src_line |-> src_line]

get_full_title(task) == <<"Task ">> \o task.number \o <<": ">> \o task.title

to_task_md(task, h) ==
    LET actions_text == Join([k \in 1..Len(h[task.actions]) |->
                                 <<"- ">> \o h[task.actions][k]], <<"\n">>)
    IN  <<"# ">> \o get_full_title(task)
        \o <<"\n\n**Goal**: ">> \o task.goal
        \o <<"\n\n**Actions**:\n\n">> \o actions_text
        \o <<"\n\n**Success Criteria**: ">> \o task.success_criteria \o <<"\n">>

to_checklist_section(task, h) ==
    LET actions_text == Join([k \in 1..Len(h[task.actions]) |->
                                 <<"- [ ] ">> \o h[task.actions][k]], <<"\n">>)
    IN  <<"### ">> \o get_full_title(task) \o <<"\n\n">> \o actions_text
        \o <<"\n- [ ] **Success Criteria**: ">> \o task.success_criteria \o <<"\n">>

Phase(number, title) ==
    [number |-> number, title |-> title, description |-> <<>>, tasks |-> <<>>]

\* Mutant: the task is inserted at the front of the list.
add_task_Prepend(phase, task) == [phase EXCEPT !.tasks = <<task>> \o @]

add_task(phase, task) == [phase EXCEPT !.tasks = Append(@, task)]

to_checklist_md(phase, h) ==
    LET tasks_text == Join([k \in 1..Len(phase.tasks) |->
                               to_checklist_section(phase.tasks[k], h)], <<"\n\n">>)
    IN  <<"# Task Checklist for Phase ">> \o IntToStr(phase.number) \o <<": ">>
        \o phase.title \o <<"\n\n## Overview\n\n">>
        \o (IF phase.description # <<>> THEN phase.description
            ELSE <<"This phase focuses on ">> \o Lower(phase.title) \o <<".">>)
        \o <<"\n\n## Tasks\n\n">> \o tasks_text \o <<"\n">>

(***************************************************************************)
(* The output tree: a function from the paths that exist (relative to the  *)
(* base directory, <<>> being the base directory itself) to what is there. *)
(***************************************************************************)
Name(stem, n, ext) == [stem |-> stem, n |-> n, ext |-> ext]

Dir == [dir |-> TRUE, data |-> <<>>]

File(data) == [dir |-> FALSE, data |-> data]

base_path == <<>>

phase_dir(phase) == base_path \o <<Name("Phase", phase.number, "")>>

checklist_file(phase) == phase_dir(phase) \o <<Name("TaskCheckList", phase.number, ".md")>>

\* Mutant: enumerate(phase.tasks) without the start index 1.
task_dir_ZeroBased(phase, k) == phase_dir(phase) \o <<Name("Task", k - 1, "")>>

task_dir(phase, k) == phase_dir(phase) \o <<Name("Task", k, "")>>

task_file(phase, k) == task_dir(phase, k) \o <<Name("Task", k, ".md")>>

complete_note_file(phase, k) == task_dir(phase, k) \o <<Name("TaskCompleteNote", k, ".md")>>

review_file(phase, k) == task_dir(phase, k) \o <<Name("TaskReview", k, ".md")>>

Exists(t, path) == path \in DOMAIN t

IsDir(t, path) == Exists(t, path) /\ t[path].dir

IsFile(t, path) == Exists(t, path) /\ ~t[path].dir

EmptyTree == [p \in {} |-> Dir]

(***************************************************************************)
(* The documents and the output trees the runs start from.                 *)
(***************************************************************************)
LnPhase1 == <<"#", "#", " ", "P", "h", "a", "s", "e", " ", "1", ":", " ", "A">>
LnPhase02 == <<"#", "#", " ", "P", "h", "a", "s", "e", " ", "0", "2", ":", " ", "B">>
LnTask11 == <<"#", "#", "#", " ", "T", "a", "s", "k", " ", "1", ".", "1", ":", " ", "T">>
LnTask7 == <<"#", "#", "#", " ", "T", "a", "s", "k", " ", "7", ":", " ", "U">>
LnTaskNoColon == <<"#", "#", "#", " ", "T", "a", "s", "k", " ", "1", ".", "2", " ", "V">>
LnGoal == <<"*", "*", "G", "o", "a", "l", "*", "*", ":", " ", "g">>
LnActions == <<"*", "*", "A", "c", "t", "i", "o", "n", "s", "*", "*", ":">>
LnBullet == <<"-", " ", "a">>
LnCriteria == <<"*", "*", "S", "u", "c", "c", "e", "s", "s", " ", "C", "r", "i", "t",
                "e", "r", "i", "a", "*", "*", ":", " ", "s">>
LnText == <<"x">>
LnBlank == <<>>

Alphabet ==
    {LnPhase1, LnPhase02, LnTask11, LnTask7, LnTaskNoColon, LnGoal, LnActions,
     LnBullet, LnCriteria, LnText}

\* content.split('\n') has at least one element
Documents == UNION {[1..n -> Alphabet] : n \in 1..MaxLines}

Phase1Dir == <<Name("Phase", 1, "")>>

Phase2Dir == <<Name("Phase", 2, "")>>

\* Left by an earlier run on a plan whose Phase 1 had two tasks, and edited by
\* hand since; README.md is not part of the layout.
EditedTree ==
    LET t1 == Phase1Dir \o <<Name("Task", 1, "")>>
        t2 == Phase1Dir \o <<Name("Task", 2, "")>>
    IN  (base_path :> Dir)
        @@ (<<Name("README", 0, ".md")>> :> File(<<"read me">>))
        @@ (Phase1Dir :> Dir)
        @@ (Phase1Dir \o <<Name("TaskCheckList", 1, ".md")>> :> File(<<"old checklist">>))
        @@ (t1 :> Dir)
        @@ (t1 \o <<Name("Task", 1, ".md")>> :> File(<<"old task 1">>))
        @@ (t1 \o <<Name("TaskCompleteNote", 1, ".md")>> :> File(<<"done by hand">>))
        @@ (t1 \o <<Name("TaskReview", 1, ".md")>> :> File(<<"reviewed by hand">>))
        @@ (t2 :> Dir)
        @@ (t2 \o <<Name("Task", 2, ".md")>> :> File(<<"old task 2">>))
        @@ (t2 \o <<Name("TaskCompleteNote", 2, ".md")>> :> File(<<"done by hand">>))
        @@ (t2 \o <<Name("TaskReview", 2, ".md")>> :> File(<<"reviewed by hand">>))

\* A tree in which a regular file stands where a task directory goes, and a
\* directory where a checklist file goes.
BlockedTree ==
    (base_path :> Dir)
    @@ (Phase1Dir :> Dir)
    @@ (Phase1Dir \o <<Name("Task", 1, "")>> :> File(<<"in the way">>))
    @@ (Phase2Dir :> Dir)
    @@ (Phase2Dir \o <<Name("TaskCheckList", 2, ".md")>> :> Dir)

InitialTrees == {EmptyTree, EditedTree, BlockedTree}

(***************************************************************************)
(* State.                                                                  *)
(***************************************************************************)
VARIABLES
    inputExists,        \* os.path.exists(action_plan_path)
    lines,              \* content.split('\n') of the input file
    tree,               \* the output tree under base_dir
    pc,                 \* "main", "parse", "create", "returned", "raised"
    i,                  \* parse_action_plan: number of the line scanned next (from 1)
    phases,
    current_phase,      \* index in phases of the current Phase object, 0 for None
    current_task,
    current_section,
    current_list_items, \* reference into heap
    heap,               \* the list objects allocated by parse_action_plan
    heading_line,       \* history: line number of the last Task heading scanned
    exception,          \* the exception that ended the run, "none" if none
    stdout,             \* what the run has printed
    phase_i,            \* create_phase_structure: position of `phase` in phases
    task_i,             \* create_phase_structure: i of enumerate(phase.tasks, 1)
    stage,              \* create_phase_structure: the statement executed next
    f,                  \* the path open for writing, <<>> when no file is open
    run,                \* number of the current run of the generator
    tree0,              \* history: the tree when create_phase_structure was entered
    results,            \* history: the tree at the end of each completed run
    text_arg,           \* summarizer: the argument text
    max_length_arg,     \* summarizer: the argument max_length
    called,             \* summarizer: whether the call has been made
    summary             \* summarizer: the string returned

vars ==
    <<inputExists, lines, tree, pc, i, phases, current_phase, current_task,
      current_section, current_list_items, heap, heading_line, exception, stdout,
      phase_i, task_i, stage, f, run, tree0, results, text_arg, max_length_arg,
      called, summary>>

inputVars == <<inputExists, lines>>

toolVars == <<text_arg, max_length_arg, called, summary>>

parseVars ==
    <<i, phases, current_phase, current_task, current_section, current_list_items,
      heap, heading_line>>

createVars == <<tree, phase_i, task_i, stage, f, tree0>>

Msg(text, path) == [text |-> text, path |-> path]

InitRun ==
    /\ pc = "main"
    /\ i = 1
    /\ phases = <<>>
    /\ current_phase = 0
    /\ current_task = EmptyDict
    /\ current_section = "none"
    /\ current_list_items = 1
    /\ heap = << <<>> >>
    /\ heading_line = 0
    /\ exception = "none"
    /\ stdout = <<>>
    /\ phase_i = 0
    /\ task_i = 0
    /\ stage = "base"
    /\ f = <<>>
    /\ run = 1
    /\ results = <<>>

\* the fixture tool is not called in a run of the generator
ToolIdle ==
    /\ text_arg = <<>>
    /\ max_length_arg = DefaultMaxLength
    /\ called = FALSE
    /\ summary = <<>>

Init ==
    /\ inputExists \in BOOLEAN
    /\ lines \in (IF inputExists THEN Documents ELSE {<<>>})
    /\ tree \in InitialTrees
    /\ tree0 = tree
    /\ InitRun
    /\ ToolIdle

(***************************************************************************)
(* main, up to the call of parse_action_plan.                              *)
(***************************************************************************)
\* Mutant: the `return` after the error message is missing.
MainMissingInput_NoReturn ==
    /\ pc = "main"
    /\ ~inputExists
    /\ stdout' = Append(stdout, Msg("Error: not found!", <<>>))
    /\ pc' = "parse"
    /\ UNCHANGED <<toolVars, inputVars, parseVars, createVars, exception, run, results>>

MainMissingInput ==
    /\ pc = "main"
    /\ ~inputExists
    /\ stdout' = Append(stdout, Msg("Error: not found!", <<>>))
    /\ pc' = "returned"
    /\ results' = Append(results, tree)
    /\ UNCHANGED <<toolVars, inputVars, parseVars, createVars, exception, run>>

MainParse ==
    /\ pc = "main"
    /\ inputExists
    /\ stdout' = Append(stdout, Msg("Parsing ActionPlan.md...", <<>>))
    /\ pc' = "parse"
    /\ UNCHANGED <<toolVars, inputVars, parseVars, createVars, exception, run, results>>

(***************************************************************************)
(* parse_action_plan: one action per branch of the loop body.              *)
(***************************************************************************)
Raise(exc) ==
    /\ pc' = "raised"
    /\ exception' = exc

\* `if current_task and current_phase:`
NeedsFlush == Truthy(current_task) /\ current_phase # 0

\* current_task['number'] of a record that no Task heading started
FlushRaises == NeedsFlush /\ ~HasKey(current_task, "number")

Get(d, k, default) == IF HasKey(d, k) THEN d[k] ELSE default

\* the heap after `current_task.get('actions', [])`
FlushHeap == IF HasKey(current_task, "actions") THEN heap ELSE Append(heap, <<>>)

\* Mutant: the goal is read without its default ''.
PendingTask_GoalNone ==
    Task(current_task["number"], current_task["title"],
         Get(current_task, "goal", <<"N", "o", "n", "e">>),
         Get(current_task, "actions", Len(heap) + 1),
         Get(current_task, "success_criteria", <<>>),
         heading_line)

PendingTask ==
    Task(current_task["number"], current_task["title"],
         Get(current_task, "goal", <<>>),
         Get(current_task, "actions", Len(heap) + 1),
         Get(current_task, "success_criteria", <<>>),
         heading_line)

\* Mutant: the finalized task goes to the first phase, not the current one.
Flushed_IntoFirst ==
    IF NeedsFlush
    THEN [phases EXCEPT ![1] = add_task(@, PendingTask)]
    ELSE phases

\* phases after `current_phase.add_task(task)`, when the flush is due
Flushed ==
    IF NeedsFlush
    THEN [phases EXCEPT ![current_phase] = add_task(@, PendingTask)]
    ELSE phases

Scanning == pc = "parse" /\ i <= Len(lines)

\* Mutant: a heading leaves the section as it is.
SectionAfterHeading_Kept == current_section

\* `current_section = None` at the end of both heading branches
SectionAfterHeading == "none"

ScanPhaseHeading ==
    /\ Scanning
    /\ phase_match(lines[i])
    /\ IF FlushRaises
       THEN /\ Raise("KeyError")
            /\ UNCHANGED <<parseVars>>
       ELSE /\ phases' = Append(Flushed,
                                Phase(ToInt(HeadingGroup1(lines[i], PhasePrefix, FALSE)),
                                      HeadingGroup2(lines[i], PhasePrefix, FALSE)))
            /\ current_phase' = Len(phases) + 1
            /\ current_task' = IF NeedsFlush THEN EmptyDict ELSE current_task
            /\ heap' = IF NeedsFlush THEN Append(FlushHeap, <<>>) ELSE heap
            /\ current_list_items' =
                   IF NeedsFlush THEN Len(FlushHeap) + 1 ELSE current_list_items
            /\ current_section' = SectionAfterHeading
            /\ i' = i + 1
            /\ UNCHANGED <<pc, exception, heading_line>>
    /\ UNCHANGED <<toolVars, inputVars, createVars, stdout, run, results>>

ScanTaskHeading ==
    /\ Scanning
    /\ ~phase_match(lines[i])
    /\ task_match(lines[i])
    /\ IF FlushRaises
       THEN /\ Raise("KeyError")
            /\ UNCHANGED <<parseVars>>
       ELSE /\ phases' = Flushed
            /\ heap' = FlushHeap \o << <<>>, <<>> >>
            /\ current_task' =
                   Put(Put(Put(EmptyDict,
                       "number", HeadingGroup1(lines[i], TaskPrefix, TRUE)),
                       "title", HeadingGroup2(lines[i], TaskPrefix, TRUE)),
                       "actions", Len(FlushHeap) + 1)
            /\ current_list_items' = Len(FlushHeap) + 2
            /\ current_section' = SectionAfterHeading
            /\ heading_line' = i
            /\ i' = i + 1
            /\ UNCHANGED <<pc, exception, current_phase>>
    /\ UNCHANGED <<toolVars, inputVars, createVars, stdout, run, results>>

IsHeading(line) == phase_match(line) \/ task_match(line)

ScanGoalMarker ==
    /\ Scanning
    /\ ~IsHeading(lines[i])
    /\ StartsWith(lines[i], GoalMarker)
    /\ current_section' = "goal"
    /\ LET goal_text == Strip(RemoveAll(lines[i], GoalMarker))
       IN  current_task' = IF goal_text # <<>>
                           THEN Put(current_task, "goal", goal_text)
                           ELSE current_task
    /\ i' = i + 1
    /\ UNCHANGED <<phases, current_phase, current_list_items, heap, heading_line>>
    /\ UNCHANGED <<toolVars, inputVars, createVars, pc, exception, stdout, run, results>>

ScanActionsMarker ==
    /\ Scanning
    /\ ~IsHeading(lines[i])
    /\ ~StartsWith(lines[i], GoalMarker)
    /\ StartsWith(lines[i], ActionsMarker)
    /\ current_section' = "actions"
    /\ heap' = Append(heap, <<>>)
    /\ current_list_items' = Len(heap) + 1
    /\ i' = i + 1
    /\ UNCHANGED <<phases, current_phase, current_task, heading_line>>
    /\ UNCHANGED <<toolVars, inputVars, createVars, pc, exception, stdout, run, results>>

ScanCriteriaMarker ==
    /\ Scanning
    /\ ~IsHeading(lines[i])
    /\ ~StartsWith(lines[i], GoalMarker)
    /\ ~StartsWith(lines[i], ActionsMarker)
    /\ StartsWith(lines[i], CriteriaMarker)
    /\ current_section' = "success_criteria"
    /\ LET criteria_text == Strip(RemoveAll(lines[i], CriteriaMarker))
       IN  current_task' = IF criteria_text # <<>>
                           THEN Put(current_task, "success_criteria", criteria_text)
                           ELSE current_task
    /\ i' = i + 1
    /\ UNCHANGED <<phases, current_phase, current_list_items, heap, heading_line>>
    /\ UNCHANGED <<toolVars, inputVars, createVars, pc, exception, stdout, run, results>>

IsMarker(line) ==
    \/ StartsWith(line, GoalMarker)
    \/ StartsWith(line, ActionsMarker)
    \/ StartsWith(line, CriteriaMarker)

\* Mutant: lines starting with '#' are accumulated like any other text.
Accumulate_HashKept(d, key, line) ==
    IF Strip(line) # <<>>
    THEN IF ~HasKey(d, key)
         THEN Put(d, key, Strip(line))
         ELSE Put(d, key, d[key] \o <<" ">> \o Strip(line))
    ELSE d

\* Mutant: a further line is appended without the separating space.
Accumulate_NoSpace(d, key, line) ==
    IF Strip(line) # <<>> /\ ~StartsWith(line, <<"#">>)
    THEN IF ~HasKey(d, key)
         THEN Put(d, key, Strip(line))
         ELSE Put(d, key, d[key] \o Strip(line))
    ELSE d

\* `current_task[key]` after the multi-line accumulation of lines 175-179 / 186-190
Accumulate(d, key, line) ==
    IF Strip(line) # <<>> /\ ~StartsWith(line, <<"#">>)
    THEN IF ~HasKey(d, key)
         THEN Put(d, key, Strip(line))
         ELSE Put(d, key, d[key] \o <<" ">> \o Strip(line))
    ELSE d

IsBullet(line) == StartsWith(Strip(line), BulletMarker)

\* line.strip()[2:]
action_text(line) == SubSeq(Strip(line), 3, Len(Strip(line)))

ScanContent ==
    /\ Scanning
    /\ ~IsHeading(lines[i])
    /\ ~IsMarker(lines[i])
    /\ IF current_section = "actions" /\ IsBullet(lines[i])
       THEN /\ heap' = [heap EXCEPT ![current_list_items] =
                            Append(@, action_text(lines[i]))]
            /\ current_task' = Put(current_task, "actions", current_list_items)
       ELSE /\ heap' = heap
            /\ current_task' =
                   IF current_section = "goal"
                   THEN Accumulate(current_task, "goal", lines[i])
                   ELSE IF current_section = "success_criteria"
                   THEN Accumulate(current_task, "success_criteria", lines[i])
                   ELSE current_task
    /\ i' = i + 1
    /\ UNCHANGED <<phases, current_phase, current_section, current_list_items,
                   heading_line>>
    /\ UNCHANGED <<toolVars, inputVars, createVars, pc, exception, stdout, run, results>>

\* The final flush and `return phases`; main then reports what was found and
\* calls create_phase_structure.
EndOfInput ==
    /\ pc = "parse"
    /\ i > Len(lines)
    /\ IF FlushRaises
       THEN /\ Raise("KeyError")
            /\ UNCHANGED <<parseVars, stdout, stage, tree0>>
       ELSE /\ phases' = Flushed
            /\ heap' = FlushHeap
            /\ stdout' = stdout \o <<Msg("Found phases", <<>>)>>
                         \o [k \in 1..Len(phases) |-> Msg("  Phase", <<>>)]
                         \o <<Msg("Generating folder structure...", <<>>)>>
            /\ pc' = "create"
            /\ stage' = "base"
            /\ tree0' = tree
            /\ UNCHANGED <<i, current_phase, current_task, current_section,
                           current_list_items, heading_line, exception>>
    /\ UNCHANGED <<toolVars, inputVars, tree, phase_i, task_i, f, run, results>>

(***************************************************************************)
(* create_phase_structure, one filesystem call per step.  stage names the  *)
(* statement executed next; with phase_i and task_i it is the position in  *)
(* the two nested loops.                                                   *)
(***************************************************************************)
DirStages == {"base", "phase_dir", "task_dir"}

FileStages == {"checklist", "task_md", "note", "review"}

\* the path the statement at (stage, phase_i, task_i) acts on
Target ==
    CASE stage = "base" -> base_path
      [] stage = "phase_dir" -> phase_dir(phases[phase_i])
      [] stage = "checklist" -> checklist_file(phases[phase_i])
      [] stage = "task_dir" -> task_dir(phases[phase_i], task_i)
      [] stage = "task_md" -> task_file(phases[phase_i], task_i)
      [] stage = "note" -> complete_note_file(phases[phase_i], task_i)
      [] stage = "review" -> review_file(phases[phase_i], task_i)

\* Mutant: the note and review files get a heading instead of nothing.
Payload_NoteTemplate ==
    CASE stage = "checklist" -> to_checklist_md(phases[phase_i], heap)
      [] stage = "task_md" -> to_task_md(phases[phase_i].tasks[task_i], heap)
      [] stage = "note" -> <<"# Notes\n">>
      [] stage = "review" -> <<"# Review\n">>

\* what the statement at (stage, phase_i, task_i) writes
Payload ==
    CASE stage = "checklist" -> to_checklist_md(phases[phase_i], heap)
      [] stage = "task_md" -> to_task_md(phases[phase_i].tasks[task_i], heap)
      [] stage = "note" -> <<>>
      [] stage = "review" -> <<>>

Pos(p, t, s) == [phase_i |-> p, task_i |-> t, stage |-> s]

\* Mutant: the loop over the phases stops one phase early.
AfterPhase_StopsEarly ==
    IF phase_i < Len(phases) - 1 THEN Pos(phase_i + 1, 0, "phase_dir")
    ELSE Pos(phase_i, 0, "end")

\* after the body of `for phase in phases` for phases[phase_i]
AfterPhase ==
    IF phase_i < Len(phases) THEN Pos(phase_i + 1, 0, "phase_dir")
    ELSE Pos(phase_i, 0, "end")

\* the statement that follows the one at (stage, phase_i, task_i)
NextPos ==
    CASE stage = "base" ->
             IF phases = <<>> THEN Pos(0, 0, "end") ELSE Pos(1, 0, "phase_dir")
      [] stage = "phase_dir" -> Pos(phase_i, 0, "checklist")
      [] stage = "checklist" ->
             IF phases[phase_i].tasks = <<>> THEN AfterPhase
             ELSE Pos(phase_i, 1, "task_dir")
      [] stage = "task_dir" -> Pos(phase_i, task_i, "task_md")
      [] stage = "task_md" -> Pos(phase_i, task_i, "note")
      [] stage = "note" -> Pos(phase_i, task_i, "review")
      [] stage = "review" ->
             IF task_i < Len(phases[phase_i].tasks)
             THEN Pos(phase_i, task_i + 1, "task_dir")
             ELSE AfterPhase

\* The statement succeeded and left newTree: print, go on; after the last
\* statement create_phase_structure returns and main prints and returns.
Proceed(newTree, text) ==
    /\ tree' = newTree
    /\ phase_i' = NextPos.phase_i
    /\ task_i' = NextPos.task_i
    /\ stage' = NextPos.stage
    /\ IF NextPos.stage = "end"
       THEN /\ pc' = "returned"
            /\ stdout' = stdout \o <<Msg(text, Target), Msg("complete!", <<>>)>>
            /\ results' = Append(results, newTree)
       ELSE /\ pc' = "create"
            /\ stdout' = Append(stdout, Msg(text, Target))
            /\ results' = results

\* Mutant: the failing statement sits in a try block whose handler goes on.
Abort_Swallowed(exc, newTree) ==
    /\ exception' = exc
    /\ tree' = newTree
    /\ f' = <<>>
    /\ phase_i' = NextPos.phase_i
    /\ task_i' = NextPos.task_i
    /\ stage' = NextPos.stage
    /\ pc' = IF NextPos.stage = "end" THEN "returned" ELSE "create"
    /\ UNCHANGED <<stdout, results>>

\* The statement raised: nothing catches it.
Abort(exc, newTree) ==
    /\ Raise(exc)
    /\ tree' = newTree
    /\ f' = <<>>
    /\ UNCHANGED <<phase_i, task_i, stage, stdout, results>>

\* Mutant: the directory is emptied when it exists already.
MadeDir_Fresh(t, path) ==
    LET kept == {q \in DOMAIN t :
                    ~(Len(q) > Len(path) /\ SubSeq(q, 1, Len(path)) = path)}
    IN  Put([q \in kept |-> t[q]], path, Dir)

\* the tree after path.mkdir(exist_ok=True)
MadeDir(t, path) == Put(t, path, Dir)

\* Mutant: the file is opened in mode 'a'.
Opened_Append(t, path) == IF IsFile(t, path) THEN t ELSE Put(t, path, File(<<>>))

\* the tree after open(path, 'w'): the file is created, or truncated
Opened(t, path) == Put(t, path, File(<<>>))

\* the tree after f.write(data) on the file open at path
Written(t, path, data) == Put(t, path, File(t[path].data \o data))

\* Path.mkdir(exist_ok=True) succeeds
MkdirOk ==
    /\ pc = "create"
    /\ stage \in DirStages
    /\ f = <<>>
    /\ ~IsFile(tree, Target)
    /\ Proceed(MadeDir(tree, Target),
               IF stage = "base" THEN "Created base directory:" ELSE "Created directory:")
    /\ UNCHANGED <<toolVars, inputVars, parseVars, exception, f, run, tree0>>

\* Path.mkdir(exist_ok=True) raises: the path is a regular file
\* (FileExistsError), or the system refuses (permissions, disk full)
MkdirFails ==
    /\ pc = "create"
    /\ stage \in DirStages
    /\ f = <<>>
    /\ Abort(IF IsFile(tree, Target) THEN "FileExistsError" ELSE "OSError", tree)
    /\ UNCHANGED <<toolVars, inputVars, parseVars, run, tree0>>

\* open(path, 'w') succeeds: the file exists and is empty
OpenOk ==
    /\ pc = "create"
    /\ stage \in FileStages
    /\ f = <<>>
    /\ ~IsDir(tree, Target)
    /\ tree' = Opened(tree, Target)
    /\ f' = Target
    /\ UNCHANGED <<toolVars, inputVars, parseVars, pc, exception, stdout, phase_i, task_i,
                   stage, run, tree0, results>>

\* open(path, 'w') raises: the path is a directory (IsADirectoryError), or the
\* system refuses
OpenFails ==
    /\ pc = "create"
    /\ stage \in FileStages
    /\ f = <<>>
    /\ Abort(IF IsDir(tree, Target) THEN "IsADirectoryError" ELSE "OSError", tree)
    /\ UNCHANGED <<toolVars, inputVars, parseVars, run, tree0>>

\* f.write(...) and the close at the end of the with block succeed
WriteOk ==
    /\ pc = "create"
    /\ f # <<>>
    /\ f' = <<>>
    /\ Proceed(Written(tree, f, Payload), "Created file:")
    /\ UNCHANGED <<toolVars, inputVars, parseVars, exception, run, tree0>>

Min(a, b) == IF a < b THEN a ELSE b

\* f.write(...) or the flush at close raises (disk full, I/O error): the file
\* keeps a prefix of the payload
WriteFails ==
    /\ pc = "create"
    /\ f # <<>>
    /\ \E k \in 0..Min(Len(Payload), MaxPartial) :
           Abort("OSError", Written(tree, f, SubSeq(Payload, 1, k)))
    /\ UNCHANGED <<toolVars, inputVars, parseVars, run, tree0>>

\* The generator is run again on the same input and the same output tree.
Rerun ==
    /\ pc = "returned"
    /\ run < MaxRuns
    /\ run' = run + 1
    /\ pc' = "main"
    /\ i' = 1
    /\ phases' = <<>>
    /\ current_phase' = 0
    /\ current_task' = EmptyDict
    /\ current_section' = "none"
    /\ current_list_items' = 1
    /\ heap' = << <<>> >>
    /\ heading_line' = 0
    /\ stdout' = <<>>
    /\ phase_i' = 0
    /\ task_i' = 0
    /\ stage' = "base"
    /\ UNCHANGED <<toolVars, inputVars, tree, exception, f, tree0, results>>

Next ==
    \/ MainMissingInput
    \/ MainParse
    \/ ScanPhaseHeading
    \/ ScanTaskHeading
    \/ ScanGoalMarker
    \/ ScanActionsMarker
    \/ ScanCriteriaMarker
    \/ ScanContent
    \/ EndOfInput
    \/ MkdirOk
    \/ MkdirFails
    \/ OpenOk
    \/ OpenFails
    \/ WriteOk
    \/ WriteFails
    \/ Rerun

Spec == Init /\ [][Next]_vars

(***************************************************************************)
(* Calls of summarizer, on every text and max_length within the bounds.    *)
(***************************************************************************)
RECURSIVE TextsOfLength(_)
TextsOfLength(n) ==
    IF n = 0 THEN {<<>>}
    ELSE {<<c>> \o t : c \in {"a", "b"}, t \in TextsOfLength(n - 1)}

Texts == UNION {TextsOfLength(n) : n \in 0..MaxText}

MaxLengths == (0 - 2)..(MaxText + 2)

SummarizerInit ==
    /\ inputExists = FALSE
    /\ lines = <<>>
    /\ tree = EmptyTree
    /\ tree0 = tree
    /\ InitRun
    /\ text_arg \in Texts
    /\ max_length_arg \in MaxLengths
    /\ called = FALSE
    /\ summary = <<>>

Summarize ==
    /\ ~called
    /\ summary' = summarizer(text_arg, max_length_arg)
    /\ called' = TRUE
    /\ UNCHANGED <<text_arg, max_length_arg, inputVars, parseVars, createVars, pc,
                   exception, stdout, run, results>>

SummarizerNext == Summarize

SummarizerSpec == SummarizerInit /\ [][SummarizerNext]_vars

(***************************************************************************)
(* The line scan alone, on plans that open a phase and a task and go on    *)
(* with a body of up to MaxBody lines: field markers with and without a    *)
(* remainder (the Success Criteria marker twice on its line), padded text  *)
(* and bullets, blank and malformed lines, and further headings.           *)
(***************************************************************************)
LnGoalBare == <<"*", "*", "G", "o", "a", "l", "*", "*", ":">>
LnCriteriaTwice == LnCriteria \o CriteriaMarker
LnBulletPadded == <<" ", "-", " ", "b", " ">>
LnTextPadded == <<" ", "y", " ">>

ScanAlphabet ==
    {LnPhase02, LnTask7, LnTaskNoColon, LnGoal, LnGoalBare, LnActions,
     LnBullet, LnBulletPadded, LnCriteriaTwice, LnTextPadded, LnBlank}

ScanDocuments ==
    {<<LnPhase1, LnTask11>> \o body :
        body \in UNION {[1..n -> ScanAlphabet] : n \in 0..MaxBody}}

ScanInit ==
    /\ inputExists = TRUE
    /\ lines \in ScanDocuments
    /\ tree = EmptyTree
    /\ tree0 = tree
    /\ InitRun
    /\ ToolIdle

ScanNext ==
    \/ MainParse
    \/ ScanPhaseHeading
    \/ ScanTaskHeading
    \/ ScanGoalMarker
    \/ ScanActionsMarker
    \/ ScanCriteriaMarker
    \/ ScanContent
    \/ EndOfInput

ScanSpec == ScanInit /\ [][ScanNext]_vars

(***************************************************************************)
(* What the claims speak of, read off the document and the tree.           *)
(***************************************************************************)
PhaseHeadingLines == {j \in 1..Len(lines) : phase_match(lines[j])}

TaskHeadingLines ==
    {j \in 1..Len(lines) : ~phase_match(lines[j]) /\ task_match(lines[j])}

\* how many Phase headings lie before line j: the position in phases of the
\* Phase that is current when line j is scanned, 0 when there is none
CurrentPhaseAt(j) == Cardinality({k \in PhaseHeadingLines : k < j})

\* Task headings before the first Phase heading
OrphanLines == {j \in TaskHeadingLines : CurrentPhaseAt(j) = 0}

\* parse_action_plan has returned in this run
Parsed ==
    \/ inputExists /\ pc \in {"create", "returned"}
    \/ pc = "raised" /\ exception # "KeyError"

\* the run has gone through main to its end
Completed == inputExists /\ pc = "returned"

TaskSlots == {<<p, k>> \in (1..Len(phases)) \X (1..Len(lines)) : k <= Len(phases[p].tasks)}

PhaseDirsIn(t) ==
    {q \in DOMAIN t : Len(q) = 1 /\ t[q].dir /\ q[1].stem = "Phase" /\ q[1].ext = ""}

CreatedTexts == {"Created base directory:", "Created directory:", "Created file:"}

IsCreated(m) == m.text \in CreatedTexts

\* the paths reported as created, in the order of the reports
CreatedPaths(out) ==
    LET c == SelectSeq(out, IsCreated) IN [k \in 1..Len(c) |-> c[k].path]

\* C1: a Task heading before the first Phase heading is dropped: no Task built
\* from it is ever in a Phase (and so nothing is created for it).
C1_OrphanDropped ==
    \A s \in TaskSlots : phases[s[1]].tasks[s[2]].src_line \notin OrphanLines

\* C2: parse_action_plan never raises, whatever the lines.
C2_NeverRaises == exception # "KeyError"

\* C3: in the result of the parse every Task is in the Phase that was current
\* when its heading was scanned, and a Task heading scanned while a Phase is
\* current gives exactly one Task.
C3_OwnedByCurrentPhase ==
    Parsed =>
        /\ \A s \in TaskSlots :
               CurrentPhaseAt(phases[s[1]].tasks[s[2]].src_line) = s[1]
        /\ \A j \in TaskHeadingLines :
               CurrentPhaseAt(j) > 0 =>
                   Cardinality({s \in TaskSlots :
                                   phases[s[1]].tasks[s[2]].src_line = j}) = 1

\* the first run has completed on an output directory that was empty
CompletedOnEmpty == Completed /\ run = 1 /\ tree0 = EmptyTree

\* C4 as stated: on an empty output directory there are as many Phase<N>
\* directories after the run as there are Phase headings.
C4_DirPerHeading ==
    CompletedOnEmpty =>
        Cardinality(PhaseDirsIn(tree)) = Cardinality(PhaseHeadingLines)

PhaseNumbersOf(doc) ==
    {ToInt(HeadingGroup1(doc[j], PhasePrefix, FALSE)) :
        j \in {k \in 1..Len(doc) : phase_match(doc[k])}}

\* C4 amended: on an empty output directory there are as many Phase<N>
\* directories after the run as there are distinct integers among the Phase
\* headings.
C4_DirPerNumber ==
    CompletedOnEmpty =>
        Cardinality(PhaseDirsIn(tree)) = Cardinality(PhaseNumbersOf(lines))

C4_Witness ==
    /\ CompletedOnEmpty
    /\ Cardinality(PhaseHeadingLines) = 2
    /\ Cardinality(PhaseDirsIn(tree)) = 1

\* C5: a Phase has as many tasks as there are Task headings between its
\* heading and the next Phase heading (or the end of input).
C5_TaskPerHeading ==
    Parsed =>
        \A p \in 1..Len(phases) :
            Len(phases[p].tasks) =
                Cardinality({j \in TaskHeadingLines : CurrentPhaseAt(j) = p})

\* C6: a second run on the same input and output directory leaves the tree
\* as the first run left it.
C6_Idempotent == \A r \in 2..Len(results) : results[r] = results[r - 1]

C6_Witness ==
    /\ Len(results) = 2
    /\ Completed
    /\ \E s \in TaskSlots : IsFile(tree, task_file(phases[s[1]], s[2]))

\* C7: with the input file missing, main reports the error and returns; the
\* parser and the materializer are not entered and the tree is untouched.
C7_MissingInputNoOutput ==
    ~inputExists =>
        /\ pc \in {"main", "returned"}
        /\ tree = tree0
        /\ i = 1 /\ phases = <<>> /\ stage = "base" /\ f = <<>>
        /\ pc = "returned" => stdout = <<Msg("Error: not found!", <<>>)>>

C7_Witness == ~inputExists /\ pc = "returned" /\ tree = EditedTree

\* the four paths of task number k of phase number n, as the layout names them
C8_TaskPaths(n, k) ==
    LET d == <<Name("Phase", n, ""), Name("Task", k, "")>>
    IN  <<d, d \o <<Name("Task", k, ".md")>>,
          d \o <<Name("TaskCompleteNote", k, ".md")>>,
          d \o <<Name("TaskReview", k, ".md")>> >>

RECURSIVE C8_PathsOfTasks(_, _, _)
C8_PathsOfTasks(n, k, count) ==
    IF k > count THEN <<>>
    ELSE C8_TaskPaths(n, k) \o C8_PathsOfTasks(n, k + 1, count)

RECURSIVE C8_PathsOfPhases(_)
C8_PathsOfPhases(ps) ==
    IF ps = <<>> THEN <<>>
    ELSE << <<Name("Phase", ps[1].number, "")>>,
            <<Name("Phase", ps[1].number, ""),
              Name("TaskCheckList", ps[1].number, ".md")>> >>
         \o C8_PathsOfTasks(ps[1].number, 1, Len(ps[1].tasks))
         \o C8_PathsOfPhases(Tail(ps))

C8_Step ==
    /\ (pc = "create" /\ stage = "task_md" /\ f # <<>> /\ f' = <<>>
        /\ exception' = "none")
           => /\ f = C8_TaskPaths(phases[phase_i].number, task_i)[2]
              /\ tree'[f] = File(to_task_md(phases[phase_i].tasks[task_i], heap))
    /\ (pc = "create" /\ pc' = "returned")
           => CreatedPaths(stdout') = << <<>> >> \o C8_PathsOfPhases(phases)

\* C8: for a phase with k tasks the task directories written are Task1..Taskk
\* under Phase<number>, by position and in order, whatever the tasks' dotted
\* numbers; Task<i>.md is written with the detail render of the i-th task, and
\* the phase directory and checklist are named by the parsed integer.
C8_PositionalNames == [][C8_Step]_vars

C8_Witness ==
    /\ Completed
    /\ \E p \in 1..Len(phases) :
           /\ Len(phases[p].tasks) = 2
           /\ phases[p].tasks[1].number = <<"7">>
           /\ phases[p].tasks[2].number = <<"1", ".", "1">>
           /\ phases[p].number = 2
           /\ IsFile(tree, C8_TaskPaths(2, 2)[2])

\* C9: after a completed run the note and review files of every task position
\* exist and are empty, whatever was there before.
C9_NotesEmpty ==
    Completed =>
        \A s \in TaskSlots :
            /\ Exists(tree, complete_note_file(phases[s[1]], s[2]))
            /\ tree[complete_note_file(phases[s[1]], s[2])] = File(<<>>)
            /\ Exists(tree, review_file(phases[s[1]], s[2]))
            /\ tree[review_file(phases[s[1]], s[2])] = File(<<>>)

C9_Witness ==
    /\ Completed
    /\ run = 1
    /\ tree0 = EditedTree
    /\ \E s \in TaskSlots : phases[s[1]].number = 1 /\ s[2] = 1

Effect(path, node) == [path |-> path, node |-> node]

TaskEffects(phase, k) ==
    <<Effect(task_dir(phase, k), Dir),
      Effect(task_file(phase, k), File(to_task_md(phase.tasks[k], heap))),
      Effect(complete_note_file(phase, k), File(<<>>)),
      Effect(review_file(phase, k), File(<<>>))>>

RECURSIVE TasksEffects(_, _)
TasksEffects(phase, k) ==
    IF k > Len(phase.tasks) THEN <<>>
    ELSE TaskEffects(phase, k) \o TasksEffects(phase, k + 1)

RECURSIVE PhasesEffects(_)
PhasesEffects(ps) ==
    IF ps = <<>> THEN <<>>
    ELSE <<Effect(phase_dir(ps[1]), Dir),
           Effect(checklist_file(ps[1]), File(to_checklist_md(ps[1], heap)))>>
         \o TasksEffects(ps[1], 1)
         \o PhasesEffects(Tail(ps))

\* the steps of create_phase_structure for the parsed phases, in their order
AllEffects == <<Effect(base_path, Dir)>> \o PhasesEffects(phases)

RECURSIVE ApplyAll(_, _)
ApplyAll(t, effects) ==
    IF effects = <<>> THEN t
    ELSE ApplyAll(Put(t, effects[1].path, effects[1].node), Tail(effects))

\* the steps completed in this run: each reports itself once
StepsDone == Len(CreatedPaths(stdout))

\* the tree create_phase_structure started from, with the completed steps done
TreeBeforeFailure == ApplyAll(tree0, SubSeq(AllEffects, 1, StepsDone))

FailedInCreate == exception \notin {"none", "KeyError"}

\* C10 as stated: when a step of create_phase_structure fails the run stops,
\* and the tree holds exactly the effects of the steps before it.
C10_ExactlyEarlierSteps ==
    FailedInCreate => pc = "raised" /\ tree = TreeBeforeFailure

\* C10 amended: when a step fails the run stops, and the tree holds the
\* effects of the steps before it; if the failing step is a file write that
\* fails after the file was opened, that file is moreover left holding a
\* prefix (possibly nothing) of what was being written.
C10_EarlierStepsAndTornFile ==
    FailedInCreate =>
        /\ pc = "raised"
        /\ \/ tree = TreeBeforeFailure
           \/ /\ StepsDone < Len(AllEffects)
              /\ LET e == AllEffects[StepsDone + 1]
                 IN  /\ ~e.node.dir
                     /\ \E k \in 0..Len(e.node.data) :
                            tree = Put(TreeBeforeFailure, e.path,
                                       File(SubSeq(e.node.data, 1, k)))

C10_Witness ==
    /\ pc = "raised"
    /\ exception = "OSError"
    /\ stage = "task_md"
    /\ StepsDone >= 3
    /\ tree # TreeBeforeFailure
    /\ tree0 = EditedTree

IsPrefixWithEllipsis(out, text) ==
    \E k \in 0..Len(text) : out = SubSeq(text, 1, k) \o Ellipsis

\* C13: summarizer returns at most max_length characters: the text itself
\* when it fits, otherwise a prefix of the text followed by '...'.
C13_AtMostMaxLength ==
    called =>
        /\ Len(summary) <= max_length_arg
        /\ Len(text_arg) <= max_length_arg => summary = text_arg
        /\ Len(text_arg) > max_length_arg => IsPrefixWithEllipsis(summary, text_arg)

HeadingLines == PhaseHeadingLines \cup TaskHeadingLines

\* the line of the first recognized heading after line j, or the line after
\* the last one
NextHeading(j) ==
    LET later == {k \in HeadingLines : k > j}
    IN  IF later = {} THEN Len(lines) + 1
        ELSE CHOOSE k \in later : \A m \in later : k <= m

\* Task headings inside a phase with no field marker up to the next heading
BareTaskLines ==
    {j \in TaskHeadingLines :
        /\ CurrentPhaseAt(j) > 0
        /\ \A k \in (j + 1)..(NextHeading(j) - 1) : ~IsMarker(lines[k])}

\* the position <<phase, index>> in phases of the Task built from line j
SlotsOfLine(j) == {s \in TaskSlots : phases[s[1]].tasks[s[2]].src_line = j}

\* no task position written later has the same Task<i>.md path
LastWriter(s) ==
    \A t \in TaskSlots :
        task_file(phases[t[1]], t[2]) = task_file(phases[s[1]], s[2])
            => (t[1] < s[1] \/ t = s)

KindOf(k) ==
    IF phase_match(lines[k]) THEN "phase"
    ELSE IF task_match(lines[k]) THEN "task"
    ELSE IF StartsWith(lines[k], GoalMarker) THEN "goal"
    ELSE IF StartsWith(lines[k], ActionsMarker) THEN "actions"
    ELSE IF StartsWith(lines[k], CriteriaMarker) THEN "success_criteria"
    ELSE "content"

RECURSIVE KindsFrom(_)
KindsFrom(k) == IF k > Len(lines) THEN <<>> ELSE <<KindOf(k)>> \o KindsFrom(k + 1)

\* the kind of every line of the document
Kinds == KindsFrom(1)

\* the section in force when line k is scanned: that of the last heading or
\* marker before it, none after a heading
SectionAt(kinds, k) ==
    LET before == {m \in 1..(k - 1) : kinds[m] # "content"}
        last == CHOOSE m \in before : \A n \in before : n <= m
    IN  IF before = {} THEN "none"
        ELSE IF kinds[last] \in {"phase", "task"} THEN "none"
        ELSE kinds[last]

\* the line at which the Task started at line j is finalized: the next Task
\* heading, or the next Phase heading that finds a phase current, or the line
\* after the last one
Final(kinds, j) ==
    LET later == {k \in (j + 1)..Len(kinds) :
                     \/ kinds[k] = "task"
                     \/ kinds[k] = "phase" /\ \E m \in 1..(k - 1) : kinds[m] = "phase"}
    IN  IF later = {} THEN Len(kinds) + 1
        ELSE CHOOSE k \in later : \A m \in later : k <= m

MarkerOf(sec) == IF sec = "goal" THEN GoalMarker ELSE CriteriaMarker

\* the text of a marker line after the marker
RemainderAfter(line, marker) == Strip(SubSeq(line, Len(marker) + 1, Len(line)))

\* the text of a marker line as the scan computes it
MarkerText(line, marker) == Strip(RemoveAll(line, marker))

\* line k is a non-blank line, not starting with '#', scanned in section sec
IsFieldLine(kinds, k, sec) ==
    /\ kinds[k] = "content"
    /\ SectionAt(kinds, k) = sec
    /\ Strip(lines[k]) # <<>>
    /\ ~StartsWith(lines[k], <<"#">>)

\* C12 as stated: the pieces of the field sec from line k up to the line fin
\* of the task's finalization: the remainder of each marker line of the field
\* when it is not empty, and each field line
RECURSIVE RemainderPieces(_, _, _, _)
RemainderPieces(kinds, sec, k, fin) ==
    IF k >= fin THEN <<>>
    ELSE (IF kinds[k] = sec /\ RemainderAfter(lines[k], MarkerOf(sec)) # <<>>
          THEN <<RemainderAfter(lines[k], MarkerOf(sec))>>
          ELSE IF IsFieldLine(kinds, k, sec) THEN <<Strip(lines[k])>>
          ELSE <<>>)
         \o RemainderPieces(kinds, sec, k + 1, fin)

LastTextMarker(kinds, j, sec, fin) ==
    LET ms == {k \in (j + 1)..(fin - 1) :
                  kinds[k] = sec /\ MarkerText(lines[k], MarkerOf(sec)) # <<>>}
    IN  IF ms = {} THEN j ELSE CHOOSE k \in ms : \A m \in ms : m <= k

RECURSIVE FieldPieces(_, _, _, _, _)
FieldPieces(kinds, sec, k, fin, last) ==
    IF k >= fin THEN <<>>
    ELSE (IF kinds[k] = sec /\ k = last
          THEN <<MarkerText(lines[k], MarkerOf(sec))>>
          ELSE IF k > last /\ IsFieldLine(kinds, k, sec)
          THEN <<Strip(lines[k])>>
          ELSE <<>>)
         \o FieldPieces(kinds, sec, k + 1, fin, last)

\* the value of the field sec of the Task started at line j
FieldValue(kinds, j, sec) ==
    LET fin == Final(kinds, j)
    IN  Join(FieldPieces(kinds, sec, j + 1, fin, LastTextMarker(kinds, j, sec, fin)),
             <<" ">>)

IsPrefixOf(a, b) == Len(a) <= Len(b) /\ SubSeq(b, 1, Len(a)) = a

\* the line of the n-th Phase heading, heads being the Phase heading lines
NthPhaseHeading(heads, n) ==
    CHOOSE k \in heads : Cardinality({m \in heads : m <= k}) = n

C14_Step ==
    pc = "parse" =>
        LET heads == PhaseHeadingLines IN
        /\ IsPrefixOf([p \in 1..Len(phases) |-> [phases[p] EXCEPT !.tasks = <<>>]],
                      [p \in 1..Len(phases') |-> [phases'[p] EXCEPT !.tasks = <<>>]])
        /\ \A p \in 1..Len(phases) : IsPrefixOf(phases[p].tasks, phases'[p].tasks)
        /\ Len(phases') = Cardinality({k \in heads : k < i'})
        /\ \A p \in 1..Len(phases') :
               /\ phases'[p].number =
                      ToInt(HeadingGroup1(lines[NthPhaseHeading(heads, p)], PhasePrefix, FALSE))
               /\ phases'[p].title =
                      HeadingGroup2(lines[NthPhaseHeading(heads, p)], PhasePrefix, FALSE)
               /\ \A k \in 1..Len(phases'[p].tasks) :
                      LET task == phases'[p].tasks[k]
                      IN  /\ task.src_line \in 1..Len(lines)
                          /\ ~phase_match(lines[task.src_line])
                          /\ task_match(lines[task.src_line])
                          /\ task.number =
                                 HeadingGroup1(lines[task.src_line], TaskPrefix, TRUE)
                          /\ task.title =
                                 HeadingGroup2(lines[task.src_line], TaskPrefix, TRUE)
                          /\ k > 1 => phases'[p].tasks[k - 1].src_line < task.src_line

\* C14: every step of the line scan leaves the phases list and each Phase's
\* task list as they were or with one more element at the end; the phases are
\* those of the Phase headings scanned so far, in document order, and the
\* tasks of a phase are in the document order of their headings.
C14_OnlyAppends == [][C14_Step]_vars

C14_Witness ==
    /\ Parsed
    /\ lines = <<LnPhase1, LnTask11, LnTask7, LnPhase02, LnTask7>>
    /\ Len(phases) = 2
    /\ Len(phases[1].tasks) = 2
    /\ phases[1].tasks[1].src_line = 2
    /\ phases[1].tasks[2].src_line = 3
    /\ Len(phases[2].tasks) = 1

C15_Step ==
    pc = "parse" =>
        /\ \A p \in 1..Len(phases) : p < current_phase => phases'[p] = phases[p]
        /\ \A s \in TaskSlots :
               /\ phases'[s[1]].tasks[s[2]] = phases[s[1]].tasks[s[2]]
               /\ heap'[phases[s[1]].tasks[s[2]].actions] =
                      heap[phases[s[1]].tasks[s[2]].actions]

\* C15: no step of the scan changes a Phase that is no longer the current
\* one (number, title, task list), and no step changes a Task that is already
\* in a phase: its fields stay, and so does the list its actions field refers
\* to, which no later append through current_list_items reaches.
C15_EmittedFrozen == [][C15_Step]_vars

C15_Witness ==
    /\ Parsed
    /\ lines = <<LnPhase1, LnTask11, LnActions, LnBullet, LnPhase02, LnActions>>
    /\ Len(phases) = 2
    /\ heap[phases[1].tasks[1].actions] = <<<<"a">>>>
    /\ current_list_items # phases[1].tasks[1].actions

\* the line about to be scanned starts with '#' and is no recognized heading
AtMalformedHeading ==
    /\ Scanning
    /\ StartsWith(lines[i], <<"#">>)
    /\ ~IsHeading(lines[i])

C16_Step ==
    AtMalformedHeading =>
        /\ i' = i + 1
        /\ pc' = pc
        /\ exception' = exception
        /\ UNCHANGED <<phases, current_phase, current_task, current_section,
                       current_list_items, heap, heading_line>>

\* C16: scanning a line that starts with '#' and matches neither heading
\* pattern only moves on to the next line: phases, the current phase, the
\* pending task record (no flush, nothing added to goal, actions or
\* success_criteria), current_section and current_list_items stay as they are,
\* so later markers and lines still feed the task that was pending.
C16_MalformedHeadingIgnored == [][C16_Step]_vars

C16_Witness ==
    /\ Parsed
    /\ lines = <<LnPhase1, LnTask11, LnGoal, LnTaskNoColon, LnTextPadded>>
    /\ Len(phases[1].tasks) = 1
    /\ phases[1].tasks[1].goal = <<"g", " ", "y">>

\* line k is neither heading nor marker, and the last heading or marker
\* before it is a heading
AfterHeadingBeforeMarker(k) ==
    /\ KindOf(k) = "content"
    /\ \E h \in 1..(k - 1) :
           /\ KindOf(h) \in {"phase", "task"}
           /\ \A m \in (h + 1)..(k - 1) : KindOf(m) = "content"

C17_Step ==
    /\ (Scanning /\ IsHeading(lines[i]) /\ pc' = "parse")
           => current_section' = "none"
    /\ (Scanning /\ AfterHeadingBeforeMarker(i))
           => /\ current_section = "none"
              /\ i' = i + 1
              /\ UNCHANGED <<phases, current_phase, current_task, current_section,
                             current_list_items, heap, heading_line, pc, exception>>

\* C17: the step that scans a recognized Phase or Task heading leaves
\* current_section none, whatever it was, and the scan of every line that is
\* no marker, between a heading and the next field marker, changes no task:
\* neither the pending record nor any list nor any phase.
C17_HeadingClosesSection == [][C17_Step]_vars

C17_Witness ==
    /\ Parsed
    /\ lines = <<LnPhase1, LnTask11, LnGoal, LnTask7, LnTextPadded, LnBullet>>
    /\ Len(phases[1].tasks) = 2
    /\ phases[1].tasks[1].goal = <<"g">>
    /\ phases[1].tasks[2].goal = <<>>
    /\ heap[phases[1].tasks[2].actions] = <<>>

\* the bullets scanned in the actions section from line k up to the line
\* fin of the task's finalization, marker stripped, in document order
RECURSIVE BulletsOf(_, _, _)
BulletsOf(kinds, k, fin) ==
    IF k >= fin THEN <<>>
    ELSE (IF /\ kinds[k] = "content"
             /\ SectionAt(kinds, k) = "actions"
             /\ IsBullet(lines[k])
          THEN <<action_text(lines[k])>>
          ELSE <<>>)
         \o BulletsOf(kinds, k + 1, fin)

\* C18: the actions of every Task in a phase are all the bullet lines scanned
\* in the actions section between the task's heading and its finalization, in
\* document order, also when the Actions marker occurs more than once.
C18_AllBullets ==
    Parsed =>
        LET kinds == Kinds
        IN  \A s \in TaskSlots :
                LET task == phases[s[1]].tasks[s[2]]
                IN  heap[task.actions] =
                        BulletsOf(kinds, task.src_line + 1, Final(kinds, task.src_line))

\* the paths of the layout for the parsed phases
LayoutPaths ==
    LET paths == C8_PathsOfPhases(phases)
    IN  {base_path} \cup {paths[k] : k \in 1..Len(paths)}

\* create_phase_structure is running, has returned, or has raised
InOrAfterCreate == inputExists /\ (pc = "create" \/ Completed \/ FailedInCreate)

\* C19: from its first step on, create_phase_structure has deleted no path
\* that was there when it started, every path outside its layout for the
\* parsed phases has the node it had, and every new path is one of the layout.
C19_OnlyLayoutTouched ==
    InOrAfterCreate =>
        LET layout == LayoutPaths
        IN  /\ DOMAIN tree0 \subseteq DOMAIN tree
            /\ \A q \in DOMAIN tree \ layout :
                   q \in DOMAIN tree0 /\ tree[q] = tree0[q]
            /\ \A q \in DOMAIN tree0 : tree0[q].dir => tree[q].dir

C19_Witness ==
    /\ Completed
    /\ tree0 = EditedTree
    /\ Len(phases) = 1
    /\ phases[1].number = 1
    /\ Len(phases[1].tasks) = 1
    /\ tree[task_file(phases[1], 1)] # tree0[task_file(phases[1], 1)]
    /\ \A q \in DOMAIN tree0 :
           (Len(q) > 1 /\ q[2] = Name("Task", 2, "")) => tree[q] = tree0[q]
    /\ tree[<<Name("README", 0, ".md")>>] = File(<<"read me">>)
    /\ tree[task_file(phases[1], 2)] = File(<<"old task 2">>)

============================================================================
